---- MODULE Spec2Model ----
(***************************************************************************)
(* Memey: the trigger controller of src/main.py (class Memey) and the      *)
(* components it drives.                                                   *)
(*                                                                         *)
(* Units.  Clock readings (time.time()) and durations are in tenths of a   *)
(* second, confidences in hundredths, so that the settings of              *)
(* Memey.__init__ are integers: emotion_hold_time 2.0 s = 20,              *)
(* meme_cooldown 5.0 s = 50, confidence_threshold 0.4 = 40.                *)
(*                                                                         *)
(* Clock.  now is the last reading of time.time(); every reading is at     *)
(* least the one before it (equal readings are possible).  The readings    *)
(* start at 0, so they include values smaller than meme_cooldown.          *)
(*                                                                         *)
(* Detector.  Observe takes the detector's (label, confidence) as an       *)
(* arbitrary input; DetectFrame is the same step with the pair computed    *)
(* by detect_emotion from its cache and the outcome of the analysis.       *)
(*                                                                         *)
(* History.  The variables listed after out record what was observed and   *)
(* emitted; the code never reads them.                                     *)
(*                                                                         *)
(* Specifications.  Spec and ObserveSpec follow the controller (Memey's    *)
(* fields) through run(), the detector's pair being an input and the       *)
(* display and the audio player being left out.  DetectSpec puts the       *)
(* detector (emotion_detector.py) in the loop.  ResolveSpec applies        *)
(* get_random_meme to every library.  PresentSpec follows the display      *)
(* threads (meme_manager.py) and the audio player (audio_player.py)        *)
(* through the triggers and the key S, the decision to trigger being left  *)
(* open.  SoundSpec applies play_emotion_sound to every library of sounds. *)
(* HoldSpec is the controller with the keys none and R, Memey's setting    *)
(* emotion_hold_time being either its default or 0.                        *)
(***************************************************************************)
EXTENDS Integers, Sequences, FiniteSets, TLC

\* ---------------------------------------------------------------- bounds
\* Clock readings are drawn from a grid: every multiple of Grain up to
\* MaxTime, plus the off-grid readings named in OffGrid.
Grain == 10
MaxTime == 100
\* Longest time _trigger_meme takes between the caller's clock reading and
\* its own (display_meme and play_emotion_sound do not block).
MaxLag == 1

\* ------------------------------------------------------- program constants
detection_interval == 3
emotion_hold_time == 20
meme_cooldown == 50
confidence_threshold == 40

\* Python's None for emotion_start_time; also "no time" in the history
\* variables.
NoTime == -1

\* Half a second, the readings just below and above the hold time, and the
\* reading just above the cooldown.
OffGrid == {5, emotion_hold_time - 1, emotion_hold_time + 1, meme_cooldown + 1}
Times == {t \in 0..MaxTime : t % Grain = 0 \/ t \in OffGrid}

\* Most image files a bucket of the meme library holds.
MaxMemes == 2
\* Most display threads started in a run.
MaxThreads == 2
\* Last clock reading of the runs that follow the display and the audio.
MaxPresentTime == 5

\* Labels the detector reports; "happy" is the default of the manual
\* trigger, "sad" stands for every other non-neutral label.
Labels == {"neutral", "happy", "sad"}
\* Confidences below, at and above the threshold.
Confidences == {20, 40, 90}

VARIABLES
  \* Memey fields
  current_emotion, emotion_start_time, meme_triggered, last_meme_time,
  sound_enabled,
  \* Memey.emotion_hold_time, the setting read at main.py:132
  hold_time,
  \* local of Memey.run: the detector's label of this iteration
  emotion,
  \* position in Memey.run and the last reading of the clock
  pc, now,
  \* Memey.camera, and whether Memey.cleanup has run
  camera, cleaned,
  \* the trigger event emitted by the last step, if any
  out,
  \* EmotionDetector fields
  last_detection_time, last_emotion, last_confidence,
  \* history of the detector: the last call of detect_emotion, whether an
  \* analysis was ever attempted, the result of the last analysis that
  \* succeeded, and the number of failed analyses in a row (2 = two or more)
  det_call, attempted, last_good, fails,
  \* MemeManager.meme_cache: for each bucket (a directory of the library,
  \* by its lower-cased name) the number of image files in it
  meme_cache,
  \* the last call of get_random_meme: the label asked for and the path
  \* returned
  asked, meme_path,
  \* MemeManager fields; current_window is the number of the display thread
  \* whose window is registered, 0 for None
  current_window, is_displaying,
  \* the display threads started so far, each by its position in
  \* _display_window, and the threads whose Tk window is open
  th, open_windows,
  \* AudioPlayer fields: the stems of the sound files found, is_playing
  sound_cache, is_playing,
  \* whether the mixer is playing music
  playing,
  \* history: what became of the sound at the last trigger or key S:
  \* "started", "missing" (no file), "failed" (the mixer raised), "off" (a
  \* trigger with the sound disabled), "cut" (the key S stopped music that
  \* was playing), "cut_off" (a trigger with the sound disabled since a cut)
  sound_event,
  \* history: the call of play_emotion_sound the last trigger made, by the
  \* label it was given and the key of sound_cache it came to ("none" for no
  \* sound found); the label is "none" when the trigger made no such call
  sound_call,
  \* history of what was observed and emitted (not program state)
  obs_label, obs_time, run_fires, recent_other, last_auto, auto_gap,
  last_done, flicker, rst, obs_log, fire_log

hist == <<obs_label, obs_time, run_fires, recent_other, last_auto, auto_gap,
          last_done, flicker, rst, obs_log, fire_log>>
\* The variables of the components, which the controller never reads.
detv == <<last_detection_time, last_emotion, last_confidence, det_call,
          attempted, last_good, fails>>
dispv == <<current_window, is_displaying, th, open_windows>>
audv == <<sound_cache, is_playing, playing, sound_event, sound_call>>
presv == <<meme_cache, asked, meme_path, dispv, audv>>
parts == <<hold_time, detv, presv>>
vars == <<current_emotion, emotion_start_time, meme_triggered, last_meme_time,
          sound_enabled, emotion, pc, now, camera, cleaned, out, hist, parts>>

NoEvent == [label |-> "none", at |-> NoTime, src |-> "none"]
Event(l, t, s) == [label |-> l, at |-> t, src |-> s]

\* ------------------------------------------------------------ _process_emotion
\* Faulty variant of Coerce: the confidence is not looked at.
CoerceNothing(e, c) == e

\* main.py:112-113
Coerce(e, c) == IF c < confidence_threshold THEN "neutral" ELSE e

\* Faulty variant of CooldownOk: the cooldown is never waited for.
CooldownAlwaysOk(t, last) == TRUE

\* main.py:128
CooldownOk(t, last) == (t - last) >= meme_cooldown

\* main.py:131-134
TriggerCondition(e, t, start, trig, last) ==
  /\ e # "neutral"
  /\ (t - start) >= hold_time
  /\ ~trig
  /\ CooldownOk(t, last)

\* Faulty variant of trigger_meme: the episode is not marked as triggered.
trigger_meme_keeps_flag(s, t2) == [s EXCEPT !.last_meme_time = t2]

\* main.py:152-153, the controller state _trigger_meme writes; t2 is its
\* own reading of the clock.
trigger_meme(s, t2) ==
  [s EXCEPT !.meme_triggered = TRUE, !.last_meme_time = t2]

\* Faulty variants of EpisodeReset: the hold keeps running across a label
\* change; a trigger keeps the next episode disarmed.
EpisodeResetKeepsStart(s, e, t) ==
  [s EXCEPT !.current_emotion = e, !.meme_triggered = FALSE]
EpisodeResetKeepsFlag(s, e, t) ==
  [s EXCEPT !.current_emotion = e, !.emotion_start_time = t]

\* main.py:116-120
EpisodeReset(s, e, t) ==
  [s EXCEPT !.current_emotion = e, !.emotion_start_time = t,
            !.meme_triggered = FALSE]

\* The controller state as a record.
CtlState ==
  [current_emotion |-> current_emotion,
   emotion_start_time |-> emotion_start_time,
   meme_triggered |-> meme_triggered,
   last_meme_time |-> last_meme_time]

\* Faulty variant of process_emotion: the label change and the unset start
\* time do not return, the trigger test follows at once.
process_emotion_falls_through(s, e, c, t, t2) ==
  LET em == Coerce(e, c)
      s1 == IF em # s.current_emotion THEN EpisodeReset(s, em, t)
            ELSE IF s.emotion_start_time = NoTime
              THEN [s EXCEPT !.emotion_start_time = t]
            ELSE s
  IN IF TriggerCondition(em, t, s1.emotion_start_time, s1.meme_triggered,
                         s1.last_meme_time)
       THEN [ctl |-> trigger_meme(s1, t2), fire |-> em]
     ELSE [ctl |-> s1, fire |-> "none"]

\* _process_emotion as a function of the controller state: e, c the
\* detector's result, t the reading of the clock at line 109, t2 the reading
\* _trigger_meme takes if it is called.  fire is the label passed to
\* _trigger_meme, or "none".
process_emotion(s, e, c, t, t2) ==
  LET em == Coerce(e, c) IN
  IF em # s.current_emotion
    THEN [ctl |-> EpisodeReset(s, em, t), fire |-> "none"]
  ELSE IF s.emotion_start_time = NoTime
    THEN [ctl |-> [s EXCEPT !.emotion_start_time = t], fire |-> "none"]
  ELSE IF TriggerCondition(em, t, s.emotion_start_time, s.meme_triggered,
                           s.last_meme_time)
    THEN [ctl |-> trigger_meme(s, t2), fire |-> em]
  ELSE [ctl |-> s, fire |-> "none"]

SetCtl(s) ==
  /\ current_emotion' = s.current_emotion
  /\ emotion_start_time' = s.emotion_start_time
  /\ meme_triggered' = s.meme_triggered
  /\ last_meme_time' = s.last_meme_time

\* ------------------------------------------------------------------ _handle_key
\* Faulty variants of ManualLabel: no default for neutral; always the
\* default.
ManualLabelNoDefault(e) == e
ManualLabelAlwaysDefault(e) == "happy"

\* main.py:199
ManualLabel(e) == IF e # "neutral" THEN e ELSE "happy"

\* Faulty variant of reset_timer: the episode start is kept.
reset_timer_keeps_start(s) == [s EXCEPT !.meme_triggered = FALSE]

\* Faulty variant of reset_timer: the cooldown is forgotten as well.
reset_timer_clears_cooldown(s) ==
  [s EXCEPT !.emotion_start_time = NoTime, !.meme_triggered = FALSE,
            !.last_meme_time = 0]

\* main.py:195-196
reset_timer(s) ==
  [s EXCEPT !.emotion_start_time = NoTime, !.meme_triggered = FALSE]

\* ------------------------------------------------------------- detect_emotion
DetState ==
  [last_detection_time |-> last_detection_time,
   last_emotion |-> last_emotion,
   last_confidence |-> last_confidence]

SetDet(d) ==
  /\ last_detection_time' = d.last_detection_time
  /\ last_emotion' = d.last_emotion
  /\ last_confidence' = d.last_confidence

\* What DeepFace.analyze and the lines after it come to: an exception, or
\* a dominant emotion with its confidence.
AnalysisError == [emotion |-> "none", confidence |-> 0]
Analyses ==
  {AnalysisError}
    \cup {[emotion |-> e, confidence |-> c] : e \in Labels, c \in Confidences}

\* Faulty variant of RateLimited: every call runs the analysis.
RateLimitedNever(td, last) == FALSE

\* emotion_detector.py:51
RateLimited(td, last) == td - last < detection_interval

\* Faulty variant of AnalysisFailed: the exception is not caught.
AnalysisFailedRaises(d) ==
  [det |-> d, emotion |-> "none", confidence |-> 0, kind |-> "raised"]

\* Faulty variant of AnalysisFailed: the cache falls back to its initial
\* value.
AnalysisFailedResets(d) ==
  [det |-> [d EXCEPT !.last_emotion = "neutral", !.last_confidence = 0],
   emotion |-> "neutral", confidence |-> 0, kind |-> "failed"]

\* emotion_detector.py:76-78
AnalysisFailed(d) ==
  [det |-> d, emotion |-> d.last_emotion, confidence |-> d.last_confidence,
   kind |-> "failed"]

\* emotion_detector.py:48-78: the call made at clock reading td, a being
\* what the analysis comes to if it is run.
detect_emotion(d, td, a) ==
  IF RateLimited(td, d.last_detection_time)
    THEN [det |-> d, emotion |-> d.last_emotion,
          confidence |-> d.last_confidence, kind |-> "cached"]
  ELSE LET d1 == [d EXCEPT !.last_detection_time = td] IN
    IF a = AnalysisError THEN AnalysisFailed(d1)
    ELSE [det |-> [d1 EXCEPT !.last_emotion = a.emotion,
                             !.last_confidence = a.confidence],
          emotion |-> a.emotion, confidence |-> a.confidence, kind |-> "ok"]

\* ------------------------------------------------------------- get_random_meme
\* str.lower on the letters A-Z; every other character is kept.
LowerOf ==
  [A |-> "a", B |-> "b", C |-> "c", D |-> "d", E |-> "e", F |-> "f",
   G |-> "g", H |-> "h", I |-> "i", J |-> "j", K |-> "k", L |-> "l",
   M |-> "m", N |-> "n", O |-> "o", P |-> "p", Q |-> "q", R |-> "r",
   S |-> "s", T |-> "t", U |-> "u", V |-> "v", W |-> "w", X |-> "x",
   Y |-> "y", Z |-> "z"]

RECURSIVE Lower(_)
\* meme_manager.py:59, audio_player.py:53
Lower(s) ==
  IF Len(s) = 0 THEN s
  ELSE LET c == SubSeq(s, 1, 1)
           rest == Lower(SubSeq(s, 2, Len(s)))
       IN (IF c \in DOMAIN LowerOf THEN LowerOf[c] ELSE c) \o rest

\* Python's "a in b" on strings.
IsSubstr(a, b) ==
  \/ Len(a) = 0
  \/ \E i \in 1..(Len(b) - Len(a) + 1) : SubSeq(b, i, i + Len(a) - 1) = a

\* The directories a meme library may hold, and the libraries themselves.
BucketNames == {"neutral", "happy", "sad", "surprised"}
Libraries ==
  UNION {[B -> 0..MaxMemes] : B \in SUBSET BucketNames}

\* Labels a caller may ask an asset for.
AskedLabels == Labels \cup {"Sad", "surprise", "sadness"}

\* get_random_meme's None, and the image files of bucket b.
NoPath == <<"none", 0>>
Memes(cache, b) == {<<b, i>> : i \in 1..cache[b]}

\* meme_manager.py:57-68: the paths random.choice may return, or None.
get_random_meme(cache, label) ==
  LET e == Lower(label) IN
    IF e \in DOMAIN cache /\ cache[e] > 0 THEN Memes(cache, e)
    ELSE IF "neutral" \in DOMAIN cache /\ cache["neutral"] > 0
      THEN Memes(cache, "neutral")
    ELSE {NoPath}

\* ---------------------------------------------------------------- display_meme
DispState ==
  [current_window |-> current_window, is_displaying |-> is_displaying,
   th |-> th, open_windows |-> open_windows]

SetDisp(d) ==
  /\ current_window' = d.current_window
  /\ is_displaying' = d.is_displaying
  /\ th' = d.th
  /\ open_windows' = d.open_windows

\* meme_manager.py:148-155, called from the main thread; ok is whether
\* destroy() works from that thread (an exception is passed over).
close_current_display(d, ok) ==
  IF d.current_window # 0
    THEN [d EXCEPT !.open_windows = IF ok THEN @ \ {d.current_window} ELSE @,
                   !.current_window = 0]
  ELSE d

\* Faulty variant of display_meme: the display is closed before the image
\* is looked for.
display_meme_closes_first(d, path, ok) ==
  LET d1 == close_current_display(d, ok) IN
    IF path = NoPath THEN [disp |-> d1, started |-> FALSE, raised |-> FALSE]
    ELSE [disp |-> [d1 EXCEPT !.th = Append(@, "begin")],
          started |-> TRUE, raised |-> FALSE]

\* meme_manager.py:78-91, path being what get_random_meme returned.
display_meme(d, path, ok) ==
  IF path = NoPath THEN [disp |-> d, started |-> FALSE, raised |-> FALSE]
  ELSE [disp |-> [close_current_display(d, ok) EXCEPT
                    !.th = Append(@, "begin")],
        started |-> TRUE, raised |-> FALSE]

\* ---------------------------------------------------------- play_emotion_sound
AudState == [is_playing |-> is_playing, playing |-> playing]

SetAud(a) ==
  /\ is_playing' = a.is_playing
  /\ playing' = a.playing

\* audio_player.py:75-81.  The mixer is initialised from AudioPlayer.__init__
\* to cleanup, so music.stop() does not raise.
stop(a) == [is_playing |-> FALSE, playing |-> FALSE]

\* audio_player.py:53-62: the keys of the cache the label may come to; the
\* loop takes the first match in the order of the dictionary.
SoundKeys(cache, label) ==
  LET e == Lower(label) IN
    IF e \in cache THEN {e}
    ELSE {k \in cache : IsSubstr(e, k) \/ IsSubstr(k, e)}

\* The sound files a library may hold, by stem.
SoundNames == {"neutral", "happy", "sad", "surprised"}

\* What a call of play_emotion_sound may leave in sound_call.
SoundCalls(cache, label) ==
  {[label |-> label, key |-> k] :
     k \in IF SoundKeys(cache, label) = {} THEN {"none"}
           ELSE SoundKeys(cache, label)}

\* Faulty variant of play_emotion_sound: a failure of the mixer is not
\* caught.
play_emotion_sound_raises(a, cache, label, ok) ==
  IF SoundKeys(cache, label) = {}
    THEN [aud |-> a, event |-> "missing", raised |-> FALSE]
  ELSE IF ok
    THEN [aud |-> [is_playing |-> TRUE, playing |-> TRUE],
          event |-> "started", raised |-> FALSE]
  ELSE [aud |-> stop(a), event |-> "failed", raised |-> TRUE]

\* audio_player.py:45-73; ok is whether music.load and music.play work.
play_emotion_sound(a, cache, label, ok) ==
  IF SoundKeys(cache, label) = {}
    THEN [aud |-> a, event |-> "missing", raised |-> FALSE]
  ELSE IF ok
    THEN [aud |-> [is_playing |-> TRUE, playing |-> TRUE],
          event |-> "started", raised |-> FALSE]
  ELSE [aud |-> stop(a), event |-> "failed", raised |-> FALSE]

\* Faulty variant of SoundWanted: the flag is not looked at.
SoundWantedAlways(enabled) == TRUE

\* main.py:149
SoundWanted(enabled) == enabled

\* --------------------------------------------------------------------- history
\* The label an observation counts as: a reading below the threshold counts
\* as neutral (the glossary's "possibly neutral-coerced label").
Counted(e, c) == IF c < confidence_threshold THEN "neutral" ELSE e

\* The scenarios of the specification, as <<label, confidence, time>>.
Scenario1 == << <<"happy", 90, 0>>, <<"happy", 90, 5>>, <<"happy", 90, 21>> >>
Scenario2 == << <<"happy", 90, 0>>, <<"sad", 90, 10>>, <<"sad", 90, 30>> >>
IsPrefix(s, full) ==
  /\ Len(s) <= Len(full)
  /\ \A i \in 1..Len(s) : s[i] = full[i]
LogOff == << <<"off", 0, 0>> >>

NoFlicker == [label |-> "none", at |-> NoTime, back |-> NoTime, fired |-> FALSE]
NoReset == [label |-> "none", at |-> NoTime, from |-> NoTime, fired |-> FALSE]

\* History after an observation (e, c) at time t; fire says whether it
\* emitted a trigger, t2 is the time the trigger was recorded.
ObserveHistory(e, c, t, t2, fire) ==
  LET lab == Counted(e, c)
      newrun == lab # obs_label
      log == Append(obs_log, <<e, c, t>>)
  IN
  /\ obs_label' = lab
  /\ obs_time' = t
  /\ run_fires' =
       LET n == (IF newrun THEN 0 ELSE run_fires) + (IF fire THEN 1 ELSE 0)
       IN IF n > 2 THEN 2 ELSE n
  /\ recent_other' =
       LET other == IF newrun /\ obs_label # "none" THEN obs_time
                    ELSE recent_other
       IN IF other # NoTime /\ other >= t - emotion_hold_time THEN other
          ELSE NoTime
  /\ last_auto' = IF fire THEN t ELSE last_auto
  /\ auto_gap' = IF fire /\ last_auto # NoTime THEN t - last_auto ELSE auto_gap
  /\ last_done' = IF fire THEN t2 ELSE last_done
  /\ flicker' =
       IF newrun
         THEN IF lab = "neutral" /\ obs_label \notin {"none", "neutral"}
                 /\ run_fires >= 1
                THEN [label |-> obs_label, at |-> t, back |-> NoTime,
                      fired |-> FALSE]
              ELSE IF obs_label = "neutral" /\ flicker.label = lab
                      /\ flicker.back = NoTime
                THEN [flicker EXCEPT !.back = t]
              ELSE NoFlicker
       ELSE IF flicker.fired THEN NoFlicker
       ELSE IF fire /\ flicker.back # NoTime
         THEN [flicker EXCEPT !.fired = TRUE]
       ELSE flicker
  /\ rst' =
       IF rst.label = "none" THEN rst
       ELSE IF lab # rst.label \/ rst.fired THEN NoReset
       ELSE IF rst.from = NoTime THEN [rst EXCEPT !.from = t, !.fired = fire]
       ELSE IF fire THEN [rst EXCEPT !.fired = TRUE]
       ELSE rst
  /\ IF obs_log # LogOff /\ (IsPrefix(log, Scenario1) \/ IsPrefix(log, Scenario2))
       THEN /\ obs_log' = log
            /\ fire_log' = IF fire THEN Append(fire_log, <<lab, t>>) ELSE fire_log
       ELSE /\ obs_log' = LogOff
            /\ fire_log' = << >>

\* History after a key other than "none": the scenarios have no key presses.
KeyHistory ==
  /\ obs_log' = LogOff
  /\ fire_log' = << >>

\* ------------------------------------------------------------------------ Init
\* The state after Memey.__init__, whatever the asset directories hold.
Constructed ==
  /\ current_emotion = "neutral"
  /\ emotion_start_time = NoTime
  /\ meme_triggered = FALSE
  /\ last_meme_time = 0
  /\ sound_enabled = TRUE
  /\ emotion = "neutral"
  /\ pc = "start"
  /\ now = 0
  /\ camera = "none"
  /\ cleaned = FALSE
  /\ out = NoEvent
  /\ obs_label = "none"
  /\ obs_time = NoTime
  /\ run_fires = 0
  /\ recent_other = NoTime
  /\ last_auto = NoTime
  /\ auto_gap = NoTime
  /\ last_done = NoTime
  /\ flicker = NoFlicker
  /\ rst = NoReset
  /\ obs_log = << >>
  /\ fire_log = << >>
  /\ last_detection_time = 0
  /\ last_emotion = "neutral"
  /\ last_confidence = 0
  /\ det_call = [kind |-> "none", at |-> NoTime, ret |-> <<"none", 0>>]
  /\ attempted = FALSE
  /\ last_good = <<"neutral", 0>>
  /\ fails = 0
  /\ asked = "none"
  /\ meme_path = NoPath
  /\ current_window = 0
  /\ is_displaying = FALSE
  /\ th = << >>
  /\ open_windows = {}
  /\ is_playing = FALSE
  /\ playing = FALSE
  /\ sound_event = "none"
  /\ sound_call = [label |-> "none", key |-> "none"]

\* The state after Memey.__init__ in a checkout without assets: the
\* directories are created empty.
Init ==
  /\ Constructed
  /\ hold_time = emotion_hold_time
  /\ meme_cache = << >>
  /\ sound_cache = {}

\* --------------------------------------------------------------------- actions
\* The readings _trigger_meme can take when called at reading t.
Lag(t) == {t2 \in Times : t2 >= t /\ t2 - t <= MaxLag}

\* main.py:210-222 as far as Memey's own fields go: the camera is released.
Cleanup ==
  /\ camera' = IF camera # "none" THEN "released" ELSE camera
  /\ cleaned' = TRUE

\* main.py:89: _process_emotion(e, c) runs at clock reading t, a trigger it
\* makes ending at reading t2.
ObserveAt(e, c, t, t2) ==
  LET r == process_emotion(CtlState, e, c, t, t2) IN
    /\ SetCtl(r.ctl)
    /\ out' = IF r.fire # "none" THEN Event(r.fire, t, "auto") ELSE NoEvent
    /\ now' = t2
    /\ emotion' = e
    /\ pc' = "key"

\* _process_emotion(e, c) at clock reading t makes a trigger.
Fires(e, c, t) == process_emotion(CtlState, e, c, t, t).fire # "none"

\* main.py:72-89: a frame is read, the detector reports (e, c) and
\* _process_emotion runs at clock reading t.
Observe ==
  /\ pc = "frame"
  /\ \E e \in Labels, c \in Confidences, t \in Times :
       /\ t >= now
       /\ \E t2 \in (IF Fires(e, c, t) THEN Lag(t) ELSE {t}) :
            /\ ObserveAt(e, c, t, t2)
            /\ ObserveHistory(e, c, t, t2, Fires(e, c, t))
  /\ UNCHANGED <<sound_enabled, camera, cleaned, parts>>

\* History of the detector after a call of kind k made at reading td that
\* returned the pair ret, a being what the analysis came to.
DetectHistory(k, td, ret, a) ==
  /\ det_call' = [kind |-> k, at |-> td, ret |-> ret]
  /\ attempted' = (attempted \/ k # "cached")
  /\ last_good' = IF k = "ok" THEN <<a.emotion, a.confidence>> ELSE last_good
  /\ fails' = IF k = "failed" THEN (IF fails >= 1 THEN 2 ELSE 1)
              ELSE IF k = "ok" THEN 0
              ELSE fails

\* main.py:72-89 with the detector: detect_emotion reads the clock at td
\* and returns its pair, then _process_emotion reads the clock at t.
DetectFrame ==
  /\ pc = "frame"
  /\ \E td \in Times, a \in Analyses :
       /\ td >= now
       /\ LET d == detect_emotion(DetState, td, a) IN
            /\ SetDet(d.det)
            /\ DetectHistory(d.kind, td, <<d.emotion, d.confidence>>, a)
            /\ IF d.kind = "raised"
                 \* main.py:104-105: an exception leaves the loop
                 THEN /\ pc' = "done"
                      /\ out' = NoEvent
                      /\ now' = td
                      /\ Cleanup
                      /\ UNCHANGED <<current_emotion, emotion_start_time,
                                     meme_triggered, last_meme_time, emotion>>
                 ELSE /\ \E t \in Lag(td) :
                           \E t2 \in (IF Fires(d.emotion, d.confidence, t)
                                        THEN Lag(t) ELSE {t}) :
                             ObserveAt(d.emotion, d.confidence, t, t2)
                      /\ UNCHANGED <<camera, cleaned>>
  /\ UNCHANGED <<sound_enabled, hold_time, hist, presv>>

\* main.py:60-65: the camera cannot be opened and run returns, before the
\* try statement whose finally clause calls cleanup.
CameraFail ==
  /\ pc = "start"
  /\ camera' = "unopened"
  /\ pc' = "done"
  /\ out' = NoEvent
  /\ UNCHANGED <<current_emotion, emotion_start_time, meme_triggered,
                 last_meme_time, sound_enabled, emotion, now, cleaned, hist,
                 parts>>

\* main.py:60-70: the camera opens and the loop is entered.
CameraOpen ==
  /\ pc = "start"
  /\ camera' = "opened"
  /\ pc' = "frame"
  /\ out' = NoEvent
  /\ UNCHANGED <<current_emotion, emotion_start_time, meme_triggered,
                 last_meme_time, sound_enabled, emotion, now, cleaned, hist,
                 parts>>

\* main.py:73-75 and 104-105: the frame cannot be read, the loop ends.
ReadFail ==
  /\ pc = "frame"
  /\ pc' = "done"
  /\ out' = NoEvent
  /\ Cleanup
  /\ UNCHANGED <<current_emotion, emotion_start_time, meme_triggered,
                 last_meme_time, sound_enabled, emotion, now, hist, parts>>

\* main.py:98-99 with no key pressed (or a key without a binding).
KeyNone ==
  /\ pc = "key"
  /\ pc' = "frame"
  /\ out' = NoEvent
  /\ UNCHANGED <<current_emotion, emotion_start_time, meme_triggered,
                 last_meme_time, sound_enabled, emotion, now, camera, cleaned,
                 hist, parts>>

\* main.py:192-193, 100, 104-105
KeyEsc ==
  /\ pc = "key"
  /\ pc' = "done"
  /\ out' = NoEvent
  /\ KeyHistory
  /\ Cleanup
  /\ UNCHANGED <<current_emotion, emotion_start_time, meme_triggered,
                 last_meme_time, sound_enabled, emotion, now, obs_label,
                 obs_time, run_fires, recent_other, last_auto, auto_gap,
                 last_done, flicker, rst, parts>>

\* main.py:194-197
KeyReset ==
  /\ pc = "key"
  /\ SetCtl(reset_timer(CtlState))
  /\ pc' = "frame"
  /\ out' = NoEvent
  /\ KeyHistory
  /\ flicker' = NoFlicker
  /\ rst' = IF obs_label \in {"none", "neutral"} THEN NoReset
            ELSE [label |-> obs_label, at |-> now, from |-> NoTime,
                  fired |-> FALSE]
  /\ UNCHANGED <<sound_enabled, emotion, now, camera, cleaned, obs_label,
                 obs_time, run_fires, recent_other, last_auto, auto_gap,
                 last_done, parts>>

\* main.py:198-200 and 138-153
KeyManual ==
  /\ pc = "key"
  /\ \E t2 \in Lag(now) :
       /\ SetCtl(trigger_meme(CtlState, t2))
       /\ out' = Event(ManualLabel(emotion), now, "manual")
       /\ now' = t2
       /\ last_done' = t2
  /\ pc' = "frame"
  /\ KeyHistory
  /\ flicker' = NoFlicker
  /\ rst' = NoReset
  /\ UNCHANGED <<sound_enabled, emotion, camera, cleaned, obs_label, obs_time,
                 run_fires, recent_other, last_auto, auto_gap, parts>>

\* main.py:201-206
KeySound ==
  /\ pc = "key"
  /\ sound_enabled' = ~sound_enabled
  /\ pc' = "frame"
  /\ out' = NoEvent
  /\ KeyHistory
  /\ UNCHANGED <<current_emotion, emotion_start_time, meme_triggered,
                 last_meme_time, emotion, now, camera, cleaned, obs_label,
                 obs_time, run_fires, recent_other, last_auto, auto_gap,
                 last_done, flicker, rst, parts>>

Next ==
  \/ CameraFail
  \/ CameraOpen
  \/ Observe
  \/ ReadFail
  \/ KeyNone
  \/ KeyEsc
  \/ KeyReset
  \/ KeyManual
  \/ KeySound

Spec == Init /\ [][Next]_vars

\* Runs made only of observations: no key is ever pressed.
ObserveNext ==
  \/ CameraOpen
  \/ Observe
  \/ KeyNone

ObserveSpec == Init /\ [][ObserveNext]_vars

\* Runs with the detector in the loop and no key pressed.
DetectNext ==
  \/ CameraOpen
  \/ DetectFrame
  \/ KeyNone

DetectSpec == Init /\ [][DetectNext]_vars

\* ------------------------------------------------------------ asset resolution
\* meme_manager.py:35-51: the library found on disk.
ResolveInit ==
  /\ Constructed
  /\ hold_time = emotion_hold_time
  /\ meme_cache \in Libraries
  /\ sound_cache = {}

\* meme_manager.py:57-68: get_random_meme is called for a label.
GetRandomMeme ==
  /\ \E e \in AskedLabels :
       /\ asked' = e
       /\ meme_path' \in get_random_meme(meme_cache, e)
  /\ UNCHANGED <<current_emotion, emotion_start_time, meme_triggered,
                 last_meme_time, sound_enabled, emotion, pc, now, camera,
                 cleaned, out, hist, hold_time, detv, meme_cache, dispv, audv>>

ResolveNext == GetRandomMeme

ResolveSpec == ResolveInit /\ [][ResolveNext]_vars

\* ----------------------------------------------------------------- presentation
\* The loop with the display threads and the audio player.  The manual
\* trigger fires in any iteration for any label but neutral, so the
\* controller's decision to trigger is left open here: a frame may trigger
\* for any such label or not at all.
TriggerLabels == Labels \ {"neutral"}

\* The libraries of these runs: an image and a sound for happy; for sad no
\* bucket, an empty neutral bucket to fall back on, and no sound.
PresentInit ==
  /\ Constructed
  /\ hold_time = emotion_hold_time
  /\ meme_cache = [b \in {"happy", "neutral"} |->
                     IF b = "happy" THEN 1 ELSE 0]
  /\ sound_cache = {"happy"}

ctlv == <<current_emotion, emotion_start_time, meme_triggered, last_meme_time>>

\* main.py:138-153: _trigger_meme(e), called by _process_emotion (src
\* "auto", main.py:136) or by _handle_key (src "manual", main.py:200).
TriggerMeme ==
  /\ pc \in {"frame", "key"}
  /\ \E e \in TriggerLabels, ok1 \in BOOLEAN, ok2 \in BOOLEAN, t2 \in Times :
       /\ t2 >= now
       /\ t2 <= MaxPresentTime
       /\ \E path \in get_random_meme(meme_cache, e) :
            LET d == display_meme(DispState, path, ok1)
                a == IF SoundWanted(sound_enabled)
                       THEN play_emotion_sound(AudState, sound_cache, e, ok2)
                     ELSE [aud |-> AudState,
                           event |-> IF sound_event \in {"cut", "cut_off"}
                                       THEN "cut_off" ELSE "off",
                           raised |-> FALSE]
            IN
            /\ Len(d.disp.th) <= MaxThreads
            /\ asked' = e
            /\ meme_path' = path
            /\ SetDisp(d.disp)
            /\ IF d.raised
                 THEN UNCHANGED <<is_playing, playing, sound_event>>
                 ELSE SetAud(a.aud) /\ sound_event' = a.event
            /\ IF d.raised \/ ~SoundWanted(sound_enabled)
                 THEN sound_call' = [label |-> "none", key |-> "none"]
                 ELSE sound_call' \in SoundCalls(sound_cache, e)
            /\ IF d.raised \/ a.raised
                 \* main.py:104-105: an exception leaves the loop
                 THEN /\ pc' = "done"
                      /\ out' = NoEvent
                      /\ Cleanup
                      /\ UNCHANGED <<ctlv, now>>
                 ELSE /\ SetCtl(trigger_meme(CtlState, t2))
                      /\ out' = Event(e, now, IF pc = "frame" THEN "auto"
                                              ELSE "manual")
                      /\ now' = t2
                      /\ pc' = IF pc = "frame" THEN "key" ELSE "frame"
                      /\ UNCHANGED <<camera, cleaned>>
  /\ UNCHANGED <<sound_enabled, emotion, hist, hold_time, detv, meme_cache, sound_cache>>

\* main.py:72-96: a frame that triggers nothing.
QuietFrame ==
  /\ pc = "frame"
  /\ pc' = "key"
  /\ out' = NoEvent
  /\ UNCHANGED <<ctlv, sound_enabled, emotion, now, camera, cleaned, hist,
                 parts>>

\* main.py:201-206 with AudioPlayer.stop
ToggleSound ==
  /\ pc = "key"
  /\ sound_enabled' = ~sound_enabled
  /\ IF sound_enabled
       THEN /\ SetAud(stop(AudState))
            /\ sound_event' = IF playing THEN "cut" ELSE "none"
       ELSE UNCHANGED <<is_playing, playing, sound_event>>
  /\ pc' = "frame"
  /\ out' = NoEvent
  /\ UNCHANGED <<ctlv, emotion, now, camera, cleaned, hist, hold_time, detv, meme_cache,
                 asked, meme_path, dispv, sound_cache, sound_call>>

\* The music comes to its end.
MusicEnds ==
  /\ playing
  /\ playing' = FALSE
  /\ UNCHANGED <<ctlv, sound_enabled, emotion, pc, now, camera, cleaned, out,
                 hist, hold_time, detv, meme_cache, asked, meme_path, dispv, sound_cache,
                 is_playing, sound_event, sound_call>>

\* What a step of a display thread leaves alone.
ThreadFrame ==
  UNCHANGED <<ctlv, sound_enabled, emotion, pc, now, camera, cleaned, out,
              hist, hold_time, detv, meme_cache, asked, meme_path, audv>>

\* meme_manager.py:95-98: the thread begins and tk.Tk() opens the window.
ThreadBuild(i) ==
  /\ th[i] = "begin"
  /\ th' = [th EXCEPT ![i] = "built"]
  /\ is_displaying' = TRUE
  /\ open_windows' = open_windows \cup {i}
  /\ UNCHANGED current_window
  /\ ThreadFrame

\* meme_manager.py:95-134 and 142-143: tk.Tk() raises, or a later line
\* does (the image cannot be read) and the window stays as it is.
ThreadFail(i) ==
  /\ th[i] \in {"begin", "built"}
  /\ th' = [th EXCEPT ![i] = "finally"]
  /\ is_displaying' = TRUE
  /\ UNCHANGED <<current_window, open_windows>>
  /\ ThreadFrame

\* meme_manager.py:136
ThreadRegister(i) ==
  /\ th[i] = "built"
  /\ th' = [th EXCEPT ![i] = "shown"]
  /\ current_window' = i
  /\ UNCHANGED <<is_displaying, open_windows>>
  /\ ThreadFrame

\* meme_manager.py:139: the duration is over, root.destroy runs.
WindowTimeout(i) ==
  /\ th[i] = "shown"
  /\ i \in open_windows
  /\ open_windows' = open_windows \ {i}
  /\ UNCHANGED <<current_window, is_displaying, th>>
  /\ ThreadFrame

\* meme_manager.py:139-140: the window is gone, mainloop returns (or
\* root.after raises).
ThreadReturn(i) ==
  /\ th[i] = "shown"
  /\ i \notin open_windows
  /\ th' = [th EXCEPT ![i] = "finally"]
  /\ UNCHANGED <<current_window, is_displaying, open_windows>>
  /\ ThreadFrame

\* meme_manager.py:144-146
ThreadFinally(i) ==
  /\ th[i] = "finally"
  /\ th' = [th EXCEPT ![i] = "done"]
  /\ is_displaying' = FALSE
  /\ current_window' = 0
  /\ UNCHANGED open_windows
  /\ ThreadFrame

DisplayThread ==
  \E i \in DOMAIN th :
    \/ ThreadBuild(i)
    \/ ThreadFail(i)
    \/ ThreadRegister(i)
    \/ WindowTimeout(i)
    \/ ThreadReturn(i)
    \/ ThreadFinally(i)

PresentNext ==
  \/ CameraOpen
  \/ TriggerMeme
  \/ QuietFrame
  \/ KeyNone
  \/ ToggleSound
  \/ MusicEnds
  \/ DisplayThread

PresentSpec == PresentInit /\ [][PresentNext]_vars

\* ------------------------------------------------------------ sound resolution
\* audio_player.py:32-43: the sound files found on disk.
SoundInit ==
  /\ Constructed
  /\ hold_time = emotion_hold_time
  /\ meme_cache = << >>
  /\ sound_cache \in SUBSET SoundNames

\* audio_player.py:45-73: play_emotion_sound is called for a label.
PlayEmotionSound ==
  /\ \E e \in AskedLabels, ok \in BOOLEAN :
       LET a == play_emotion_sound(AudState, sound_cache, e, ok) IN
         /\ SetAud(a.aud)
         /\ sound_event' = a.event
         /\ sound_call' \in SoundCalls(sound_cache, e)
  /\ UNCHANGED <<ctlv, sound_enabled, emotion, pc, now, camera, cleaned, out,
                 hist, hold_time, detv, meme_cache, asked, meme_path, dispv, sound_cache>>

SoundNext ==
  \/ PlayEmotionSound
  \/ MusicEnds

SoundSpec == SoundInit /\ [][SoundNext]_vars

\* ---------------------------------------------------------------- hold setting
\* The values of the setting emotion_hold_time: the default of main.py:30
\* and no hold at all.
HoldTimes == {0, emotion_hold_time}

\* The state after Memey.__init__ and the setting of emotion_hold_time.
HoldInit ==
  /\ Constructed
  /\ hold_time \in HoldTimes
  /\ meme_cache = << >>
  /\ sound_cache = {}

\* Runs of observations in which the only key pressed is R.
HoldNext ==
  \/ CameraOpen
  \/ Observe
  \/ KeyNone
  \/ KeyReset

HoldSpec == HoldInit /\ [][HoldNext]_vars

\* ====================================================================== claims
\* An observation is being processed in this step.
ObsStep == pc = "frame" /\ pc' = "key"

\* C1: in a run made only of observations, at most one trigger is emitted
\* per episode (a maximal run of observations with the same counted label),
\* however long the episode lasts.
C1_OncePerEpisode == run_fires <= 1

\* An observation of an episode that has triggered, made when the cooldown
\* has elapsed again, emits nothing.
C1_Witness ==
  /\ pc = "key"
  /\ run_fires = 1
  /\ out = NoEvent
  /\ obs_time - last_done >= meme_cooldown

\* C2: every trigger event, automatic or manual, carries a label other than
\* neutral.
C2_NeverNeutral == out.label # "neutral"

\* The manual trigger pressed while the detector reports neutral.
C2_Witness ==
  /\ out.src = "manual"
  /\ emotion = "neutral"
  /\ out.label = "happy"

\* C3: two consecutive automatic triggers are at least meme_cooldown apart,
\* whatever happens between them.
C3_CooldownSpacing == auto_gap = NoTime \/ auto_gap >= meme_cooldown

\* Two automatic triggers exactly one cooldown apart.
C3_Witness ==
  /\ out.src = "auto"
  /\ auto_gap = meme_cooldown

\* C4: from every controller state and at every time, an observation below
\* the confidence threshold has the same outcome (trigger and successor
\* state) as a neutral observation, whatever label it reports.
C4_LowConfidenceIsNeutral ==
  \A e \in Labels, c \in Confidences, c2 \in Confidences, t \in Times :
    (c < confidence_threshold /\ t >= now) =>
      process_emotion(CtlState, e, c, t, t)
        = process_emotion(CtlState, "neutral", c2, t, t)

\* A low-confidence "happy" reading has just ended an episode.
C4_Witness ==
  /\ pc = "key"
  /\ emotion = "happy"
  /\ obs_label = "neutral"
  /\ current_emotion = "neutral"
  /\ emotion_start_time = obs_time
  /\ recent_other = obs_time

\* C5 as stated: when an automatic trigger is emitted at time t, no
\* observation with a timestamp in [t - hold, t] had another label.
C5_ClosedWindow ==
  out.src = "auto" => (out.label = obs_label /\ recent_other = NoTime)

\* C5 as amended: when an automatic trigger is emitted at time t, no
\* observation with a timestamp in (t - hold, t] had another label.
C5_OpenWindow ==
  out.src = "auto" =>
    /\ out.label = obs_label
    /\ recent_other = NoTime \/ recent_other <= out.at - emotion_hold_time

\* A trigger whose episode began at the timestamp of the last observation
\* of the episode before it.
C5_Witness ==
  /\ out.src = "auto"
  /\ recent_other = out.at - emotion_hold_time

\* C6: from the initial state, happy (0.9) observed at t = 0, 0.5 and 2.1
\* emits exactly one trigger, at t = 2.1, for happy.
C6_Scenario == obs_log = Scenario1 => fire_log = << <<"happy", 21>> >>

\* C7: happy at t = 0, sad at t = 1.0 and sad at t = 3.0 emit exactly one
\* trigger, at t = 3.0, for sad.
C7_Scenario == obs_log = Scenario2 => fire_log = << <<"sad", 30>> >>

\* C8 as stated: after a trigger for L, a flicker to neutral at T and back to
\* L, an observation of L at or after T + hold with the cooldown elapsed
\* emits the trigger.
C8_FromFlicker ==
  [][ ( /\ ObsStep
        /\ flicker.back # NoTime /\ ~flicker.fired
        /\ obs_label' = flicker.label
        /\ obs_time' >= flicker.at + emotion_hold_time
        /\ obs_time' - last_done >= meme_cooldown )
      => (out'.src = "auto" /\ out'.label = flicker.label) ]_vars

\* C8 as amended: the hold runs from T', the observation at which the label
\* came back to L: an observation of L at or after T' + hold with the
\* cooldown elapsed emits the trigger, and none before T' + hold does.
C8_FromReturn ==
  [][ /\ ( /\ ObsStep
           /\ flicker.back # NoTime /\ ~flicker.fired
           /\ obs_label' = flicker.label
           /\ obs_time' >= flicker.back + emotion_hold_time
           /\ obs_time' - last_done >= meme_cooldown )
         => (out'.src = "auto" /\ out'.label = flicker.label)
      /\ ( /\ ObsStep
           /\ flicker.label # "none" /\ ~flicker.fired
           /\ out'.src = "auto" )
         => ( /\ flicker.back # NoTime
              /\ obs_time' >= flicker.back + emotion_hold_time ) ]_vars

\* The second trigger for L has been emitted, the label having come back
\* later than it flickered away.
C8_Witness ==
  /\ flicker.fired
  /\ flicker.back > flicker.at
  /\ out.src = "auto"

\* The cooldown test as the code makes it, on the recorded trigger time.
CooldownPassed(t) ==
  t - (IF last_done = NoTime THEN 0 ELSE last_done) >= meme_cooldown

\* C9 as stated: after reset_timer at time R while L is observed, an
\* observation of L at or after R + hold that passes the cooldown test
\* emits the trigger.
C9_FromReset ==
  [][ ( /\ ObsStep
        /\ rst.label # "none" /\ ~rst.fired
        /\ obs_label' = rst.label
        /\ obs_time' >= rst.at + emotion_hold_time
        /\ CooldownPassed(obs_time') )
      => (out'.src = "auto" /\ out'.label = rst.label) ]_vars

\* C9 as amended: the hold restarts at R', the first observation after the
\* reset: no trigger for L is emitted before R' + hold, and an observation
\* of L at or after R' + hold that passes the cooldown test emits it.
C9_FromFirstObservation ==
  [][ /\ ( /\ ObsStep
           /\ rst.label # "none" /\ ~rst.fired
           /\ obs_label' = rst.label
           /\ out'.src = "auto" )
         => ( /\ rst.from # NoTime
              /\ obs_time' >= rst.from + emotion_hold_time )
      /\ ( /\ ObsStep
           /\ rst.from # NoTime /\ ~rst.fired
           /\ obs_label' = rst.label
           /\ obs_time' >= rst.from + emotion_hold_time
           /\ CooldownPassed(obs_time') )
         => (out'.src = "auto" /\ out'.label = rst.label) ]_vars

\* The trigger after a reset, the first observation after the reset having
\* come later than the reset.
C9_Witness ==
  /\ rst.fired
  /\ rst.from > rst.at
  /\ out.src = "auto"

\* C10 as stated: the manual trigger always emits, for the controller's
\* current label, or for happy when that label is neutral.
C10_CurrentLabel ==
  [][ KeyManual =>
        out'.label = (IF current_emotion # "neutral" THEN current_emotion
                      ELSE "happy") ]_vars

\* C10 as amended: the manual trigger can be taken whenever a key is
\* handled, and it emits for the label the detector reported for this
\* frame (not coerced by the threshold), or for happy when that is neutral.
C10_ReportedLabel ==
  /\ [](pc = "key" => ENABLED KeyManual)
  /\ [][ KeyManual =>
           out' = Event(IF emotion # "neutral" THEN emotion ELSE "happy",
                        now, "manual") ]_vars

\* A manual trigger during the cooldown of an automatic one, with no hold
\* time elapsed, for a low-confidence "sad" the controller counts as neutral.
C10_Witness ==
  /\ out.src = "manual"
  /\ out.label = "sad"
  /\ emotion = "sad"
  /\ current_emotion = "neutral"
  /\ emotion_start_time = out.at
  /\ last_auto # NoTime
  /\ out.at - last_auto < meme_cooldown

\* C11: the manual trigger leaves the controller's episode and cooldown
\* state as it was: current label, episode start, triggered flag and last
\* trigger time have the same values after the key M as before it.
C11_ManualKeepsState ==
  [][ KeyManual =>
        UNCHANGED <<current_emotion, emotion_start_time, meme_triggered,
                    last_meme_time>> ]_vars

\* C20: last_meme_time changes only in a step that emits a trigger: an
\* observation that does not fire, the key R and the key S leave it as it
\* was; the key R also leaves current_emotion as it was and clears
\* emotion_start_time and meme_triggered.
C20_ChangedOnlyByTrigger ==
  [][ /\ last_meme_time' # last_meme_time => out'.label # "none"
      /\ (ObsStep /\ out'.label = "none") => last_meme_time' = last_meme_time
      /\ KeySound => last_meme_time' = last_meme_time
      /\ KeyReset => /\ last_meme_time' = last_meme_time
                     /\ current_emotion' = current_emotion
                     /\ emotion_start_time' = NoTime
                     /\ meme_triggered' = FALSE ]_vars

\* The key R has just been handled in an episode of a non-neutral label
\* that has triggered: the label and the time of that trigger are kept.
C20_Witness ==
  /\ pc = "frame"
  /\ rst.label = current_emotion
  /\ rst.from = NoTime
  /\ run_fires = 1
  /\ last_meme_time > 0
  /\ last_meme_time = last_done
  /\ emotion_start_time = NoTime
  /\ ~meme_triggered

\* C16: when the camera cannot be opened, run ends without entering the
\* loop (no observation processed, no trigger emitted, no key handled) and
\* with the resources released, as on every other exit.
C16_CameraFailureReleases ==
  (pc = "done" /\ camera # "released") =>
    /\ obs_label = "none"
    /\ last_done = NoTime
    /\ obs_log = << >>
    /\ cleaned

\* A frame is being processed in this step.
FrameStep == pc = "frame" /\ pc' # "frame"

\* C14: a call of detect_emotion made less than detection_interval after
\* the previous analysis attempt does not run the analysis: it returns the
\* cached pair and leaves the cache as it was; and as long as no analysis
\* has succeeded the cached pair is (neutral, 0.0).
C14_RateLimited ==
  /\ [][ ( /\ FrameStep
           /\ attempted
           /\ det_call'.at - last_detection_time < detection_interval )
         => ( /\ det_call'.kind = "cached"
              /\ det_call'.ret = <<last_emotion, last_confidence>>
              /\ UNCHANGED <<last_detection_time, last_emotion,
                             last_confidence>> ) ]_vars
  /\ [](last_good = <<"neutral", 0>>
          => <<last_emotion, last_confidence>> = <<"neutral", 0>>)

\* A call answered from the cache, made later than the last analysis,
\* which had succeeded with a label other than neutral.
C14_Witness ==
  /\ det_call.kind = "cached"
  /\ attempted
  /\ det_call.at > last_detection_time
  /\ fails = 0
  /\ det_call.ret = <<"happy", 90>>

\* C15: when the analysis fails, detect_emotion returns the pair of the
\* last analysis that succeeded (the initial pair if none has), leaves the
\* cached pair as it was and raises nothing: the loop goes on to process
\* that pair as this frame's observation, however many analyses have
\* failed in a row.
C15_FailureKeepsLast ==
  [][ (FrameStep /\ det_call'.kind \notin {"cached", "ok"})
      => ( /\ det_call'.ret = last_good
           /\ UNCHANGED <<last_emotion, last_confidence, last_good>>
           /\ <<last_emotion, last_confidence>> = last_good
           /\ pc' = "key"
           /\ emotion' = last_good[1]
           /\ \E t \in Times :
                CtlState' = process_emotion(CtlState, last_good[1],
                                            last_good[2], t, now').ctl ) ]_vars

\* The analysis has failed again after failing before; the pair of the
\* last success, (happy, 0.9), has been observed long enough to trigger.
C15_Witness ==
  /\ det_call.kind = "failed"
  /\ fails = 2
  /\ pc = "key"
  /\ last_good = <<"happy", 90>>
  /\ out.src = "auto"
  /\ out.label = "happy"

\* The buckets of the library that hold at least one image.
Stocked == {b \in DOMAIN meme_cache : meme_cache[b] > 0}

\* The stocked buckets whose name contains the label l or is contained in
\* it.
Alike(l) == {b \in Stocked : IsSubstr(l, b) \/ IsSubstr(b, l)}

\* C12: get_random_meme follows the documented order: an image of the
\* bucket named like the label, case ignored; failing that, an image of a
\* bucket whose name contains the label or is contained in it; failing that,
\* an image of the neutral bucket; and nothing only when all three miss.
C12_ResolutionOrder ==
  asked # "none" =>
    LET l == Lower(asked) IN
      IF l \in Stocked THEN meme_path \in Memes(meme_cache, l)
      ELSE IF Alike(l) # {}
        THEN \E b \in Alike(l) : meme_path \in Memes(meme_cache, b)
      ELSE IF "neutral" \in Stocked
        THEN meme_path \in Memes(meme_cache, "neutral")
      ELSE meme_path = NoPath

\* C13: at most one meme window is open at any moment, whatever the
\* interleaving of the loop and the display threads.
C13_OneWindow == Cardinality(open_windows) <= 1

\* _trigger_meme is running in this step.
TriggerStep ==
  /\ pc \in {"frame", "key"}
  /\ pc' # pc
  /\ out'.label # "none" \/ pc' = "done"

\* C17: a trigger for a label no image resolves for starts no display
\* thread, opens and closes no window and raises nothing: the trigger is
\* completed and the loop goes on.
C17_NoImageNoDisplay ==
  [][ (TriggerStep /\ meme_path' = NoPath)
      => ( /\ UNCHANGED dispv
           /\ pc' \in {"frame", "key"}
           /\ out'.label = asked'
           /\ CtlState' = trigger_meme(CtlState, now') ) ]_vars

\* An automatic trigger for sad, for which there is no image, while the
\* window of an earlier trigger is open and registered: it is left open.
C17_Witness ==
  /\ meme_path = NoPath
  /\ asked = "sad"
  /\ out.label = "sad"
  /\ out.src = "auto"
  /\ pc = "key"
  /\ current_window # 0
  /\ current_window \in open_windows

\* C18: while sound_enabled is off the mixer plays nothing: a trigger with
\* the sound disabled starts no music, and the key S that disables the
\* sound stops the music that is playing.
C18_SilentWhenDisabled == ~sound_enabled => ~playing

\* The key S has cut music that was playing, and a trigger for happy, for
\* which there is a sound file, has fired since with the sound disabled.
C18_Witness ==
  /\ ~sound_enabled
  /\ sound_event = "cut_off"
  /\ asked = "happy"
  /\ out.label = "happy"
  /\ ~playing

\* The window registered in current_window outlives the call of
\* close_current_display made by this step: destroy() has failed.
CloseFailed ==
  /\ current_window # 0
  /\ current_window \in open_windows
  /\ current_window \in open_windows'
  /\ Len(th') > Len(th)

\* A display thread leaves its try block by an exception in this step.
ThreadFailed ==
  \E i \in DOMAIN th : th[i] \in {"begin", "built"} /\ th'[i] = "finally"

\* C19: a failure of the display or of the mixer does not change what
\* the controller does: a trigger during which the mixer raises or the old
\* window cannot be destroyed leaves the controller in the state
\* _trigger_meme leaves it in when nothing fails, and the loop goes on; a
\* display thread that fails changes neither.
C19_FailureKeepsController ==
  [][ /\ (TriggerStep /\ (sound_event' = "failed" \/ CloseFailed))
         => ( /\ CtlState' = trigger_meme(CtlState, now')
              /\ pc' \in {"frame", "key"} )
      /\ ThreadFailed => UNCHANGED <<ctlv, pc, now>> ]_vars

\* A trigger during which the mixer has raised, its time recorded, and a
\* display thread that has failed with its window open.
C19_Witness ==
  /\ sound_event = "failed"
  /\ meme_triggered
  /\ last_meme_time = now
  /\ now > out.at
  /\ pc \in {"frame", "key"}
  /\ \E i \in DOMAIN th : th[i] = "finally" /\ i \in open_windows

\* The sounds of the library whose name contains the label l or is
\* contained in it.
AlikeSounds(l) == {k \in sound_cache : IsSubstr(l, k) \/ IsSubstr(k, l)}

\* C21: play_emotion_sound follows the documented order: the sound named
\* like the label, case ignored; failing that, a sound whose name contains
\* the label or is contained in it; failing that, the neutral sound; and
\* nothing is played, the mixer being left alone, only when all three miss.
C21_SoundResolutionOrder ==
  sound_call.label # "none" =>
    LET l == Lower(sound_call.label) IN
      IF l \in sound_cache THEN sound_call.key = l
      ELSE IF AlikeSounds(l) # {} THEN sound_call.key \in AlikeSounds(l)
      ELSE IF "neutral" \in sound_cache THEN sound_call.key = "neutral"
      ELSE sound_call.key = "none" /\ sound_event = "missing"

\* C22: an observation whose coerced label differs from current_emotion,
\* and one that finds emotion_start_time unset, emits no trigger, whatever
\* the hold time and the cooldown; so an automatic trigger follows an
\* earlier observation of the same label, made since the last label change
\* and the last reset, which set the start time of the episode.
C22_FirstObservationSilent ==
  [][ ObsStep =>
        /\ (obs_label' # current_emotion \/ emotion_start_time = NoTime)
             => out' = NoEvent
        /\ out'.src = "auto" =>
             /\ obs_label = out'.label
             /\ emotion_start_time # NoTime
             /\ emotion_start_time <= obs_time
             /\ rst.label # "none" => rst.from # NoTime ]_vars

\* With no hold and the cooldown elapsed, the first observation of an
\* episode after a reset has emitted nothing.
C22_Witness ==
  /\ hold_time = 0
  /\ pc = "key"
  /\ out = NoEvent
  /\ obs_label # "neutral"
  /\ current_emotion = obs_label
  /\ emotion_start_time = obs_time
  /\ rst.label = obs_label /\ rst.from = obs_time
  /\ ~meme_triggered
  /\ CooldownOk(obs_time, last_meme_time)

====
